---- MODULE Spec2Model ----
(***************************************************************************)
(* Model of the contact manager of src/main.py: Field / Phone / Birthday,  *)
(* Record and AddressBook.                                                 *)
(*                                                                         *)
(* Python objects live in two heaps: recs (Record objects) and phoneVal    *)
(* (Phone objects, each holding its _value).  A Record's phones field is a *)
(* list of Phone object identities, so that two lists holding the same     *)
(* Phone object are distinguishable from two lists holding equal numbers.  *)
(* Strings are sequences of one-character strings; Python's None is the    *)
(* one-element sequence None, which is no string.                          *)
(***************************************************************************)
EXTENDS Integers, Sequences, FiniteSets, TLC

VARIABLES recs, phoneVal, data, file, last, now, cap

vars == <<recs, phoneVal, data, file, last, now, cap>>

---------------------------------------------------------------------------
(* Bounds of the model *)

MaxRecs == 2
MaxPhones == 2
MaxLeanPhones == 1
MaxBook == 11
MaxPage == 3
MaxN == 3
MaxYears == 1

---------------------------------------------------------------------------
(* Values and strings *)

None == <<"NoneType">>

NoneStr == <<"N", "o", "n", "e">>

Digits == <<"0", "1", "2", "3", "4", "5", "6", "7", "8", "9">>

IsDigit(c) == \E i \in 1..10 : Digits[i] = c

DigitVal(c) == (CHOOSE i \in 1..10 : Digits[i] = c) - 1

RECURSIVE ToNum(_)
ToNum(s) == IF s = <<>> THEN 0
            ELSE 10 * ToNum(SubSeq(s, 1, Len(s) - 1)) + DigitVal(s[Len(s)])

AllDigits(s) == \A i \in 1..Len(s) : IsDigit(s[i])

LowerChar(c) == CASE c = "A" -> "a"
                  [] c = "B" -> "b"
                  [] c = "L" -> "l"
                  [] c = "O" -> "o"
                  [] OTHER -> c

Lower(s) == [i \in 1..Len(s) |-> LowerChar(s[i])]

StrOfValue(v) == IF v = None THEN NoneStr ELSE v

StrOfPhoneObject(p) == <<"<", "P", "h", "o", "n", "e", " ", "a", "t", " ", Digits[p + 1], ">">>

Range(s) == {s[i] : i \in 1..Len(s)}

---------------------------------------------------------------------------
(* Phone *)

ValidPhone(value) ==
    ~ (value # None /\ ~ (Len(value) = 10 /\ AllDigits(value)))

SetPhoneValueNoValidate(pv, p, new_value) ==
    [exc |-> IF ValidPhone(new_value) THEN "" ELSE "Invalid phone number format",
     pv  |-> [pv EXCEPT ![p] = new_value]]

SetPhoneValue(pv, p, new_value) ==
    IF ValidPhone(new_value)
    THEN [exc |-> "", pv |-> [pv EXCEPT ![p] = new_value]]
    ELSE [exc |-> "Invalid phone number format", pv |-> pv]

---------------------------------------------------------------------------
(* Birthday and calendar *)

IsLeap(y) == (y % 4 = 0 /\ y % 100 # 0) \/ y % 400 = 0

DaysInMonth(y, m) ==
    IF m = 2 THEN (IF IsLeap(y) THEN 29 ELSE 28)
    ELSE IF m \in {4, 6, 9, 11} THEN 30 ELSE 31

ValidDate(y, m, d) == y \in 1..9999 /\ m \in 1..12 /\ d \in 1..DaysInMonth(y, m)

Dashes(s) == {i \in 1..Len(s) : s[i] = "-"}

ParseDate(s) ==
    IF s = None \/ Cardinality(Dashes(s)) # 2 THEN None
    ELSE LET i  == CHOOSE k \in Dashes(s) : \A j \in Dashes(s) : k <= j
             j  == CHOOSE k \in Dashes(s) : k # i
             ys == SubSeq(s, 1, i - 1)
             ms == SubSeq(s, i + 1, j - 1)
             ds == SubSeq(s, j + 1, Len(s))
         IN  IF /\ Len(ys) = 4 /\ Len(ms) \in 1..2 /\ Len(ds) \in 1..2
                /\ AllDigits(ys) /\ AllDigits(ms) /\ AllDigits(ds)
                /\ ValidDate(ToNum(ys), ToNum(ms), ToNum(ds))
             THEN <<ToNum(ys), ToNum(ms), ToNum(ds)>>
             ELSE None

Pad(n, width) ==
    [i \in 1..width |-> Digits[((n \div (10 ^ (width - i))) % 10) + 1]]

FormatDate(date) == Pad(date[1], 4) \o <<"-">> \o Pad(date[2], 2) \o <<"-">> \o Pad(date[3], 2)

DaysBeforeYear(y) == (y - 1) * 365 + ((y - 1) \div 4) - ((y - 1) \div 100) + ((y - 1) \div 400)

RECURSIVE DaysBeforeMonth(_, _)
DaysBeforeMonth(y, m) == IF m = 1 THEN 0
                         ELSE DaysBeforeMonth(y, m - 1) + DaysInMonth(y, m - 1)

Ordinal(y, m, d) == DaysBeforeYear(y) + DaysBeforeMonth(y, m) + d

HoursPerDay == 24

(* today is <<year, month, day, hour>>; the result is [exc, days]. *)
DaysToBirthday(birthday, today) ==
    LET m == birthday[2]
        d == birthday[3]
        t == Ordinal(today[1], today[2], today[3]) * HoursPerDay + today[4]
        RangeError == [exc |-> "day is out of range for month", days |-> 0]
    IN  IF ~ ValidDate(today[1], m, d) THEN RangeError
        ELSE IF t > Ordinal(today[1], m, d) * HoursPerDay
        THEN IF ~ ValidDate(today[1] + 1, m, d) THEN RangeError
             ELSE [exc |-> "",
                   days |-> (Ordinal(today[1] + 1, m, d) * HoursPerDay - t) \div HoursPerDay]
        ELSE [exc |-> "", days |-> (Ordinal(today[1], m, d) * HoursPerDay - t) \div HoursPerDay]

---------------------------------------------------------------------------
(* Record *)

Truthy(v) == v # None /\ v # <<>>

RecordInit(name, birthday, phones) ==
    IF Truthy(birthday) /\ ParseDate(birthday) = None
    THEN [exc |-> "Invalid birthday format. Please use YYYY-MM-DD",
          name |-> name, birthday |-> None, phones |-> <<>>]
    ELSE IF phones # <<>> /\ \E i \in 1..Len(phones) : ~ ValidPhone(phones[i])
    THEN [exc |-> "Invalid phone number format",
          name |-> name, birthday |-> None, phones |-> <<>>]
    ELSE [exc |-> "", name |-> name,
          birthday |-> IF Truthy(birthday) THEN ParseDate(birthday) ELSE None,
          phones |-> phones]

MinOf(S) == CHOOSE x \in S : \A y \in S : x <= y

RemovePhone(pv, phones, phone) ==
    LET Keep(p) == StrOfPhoneObject(p) # phone IN SelectSeq(phones, Keep)

FindPhone(pv, phones, phone) ==
    LET Hit(p) == StrOfPhoneObject(p) = phone
        found_phones == SelectSeq(phones, Hit)
    IN  IF found_phones # <<>> THEN pv[found_phones[1]] ELSE None

EditPhone(pv, phones, old_phone, new_phone) ==
    LET hits == {i \in 1..Len(phones) : StrOfValue(pv[phones[i]]) = old_phone}
    IN  IF hits # {}
        THEN SetPhoneValue(pv, phones[MinOf(hits)], new_phone)
        ELSE [exc |-> "Phone number does not exist in the record", pv |-> pv]

GetPhones(pv, phones) == [i \in 1..Len(phones) |-> StrOfValue(pv[phones[i]])]

Display(rec, pv) ==
    [name     |-> rec.name,
     phones   |-> GetPhones(pv, rec.phones),
     birthday |-> IF rec.birthday # None THEN FormatDate(rec.birthday) ELSE <<>>]

ToJson(rec, pv) ==
    [name     |-> rec.name,
     birthday |-> IF rec.birthday # None THEN FormatDate(rec.birthday) ELSE None,
     phones   |-> GetPhones(pv, rec.phones)]

---------------------------------------------------------------------------
(* AddressBook: data is the insertion-ordered dict, a sequence of          *)
(* [key, rec] entries with distinct keys.                                  *)

page_size == 5

SameNameExact(a, b) == a = b

SameName(a, b) == Lower(a) = Lower(b)

DictSet(d, k, v) ==
    IF \E i \in 1..Len(d) : d[i].key = k
    THEN [i \in 1..Len(d) |-> IF d[i].key = k THEN [key |-> k, rec |-> v] ELSE d[i]]
    ELSE Append(d, [key |-> k, rec |-> v])

DictDel(d, k) == LET Keep(e) == e.key # k IN SelectSeq(d, Keep)

Values(d) == [i \in 1..Len(d) |-> d[i].rec]

Find(d, rs, name) ==
    LET hits == {i \in 1..Len(d) : SameName(rs[d[i].rec].name, Lower(name))}
    IN  IF hits = {} THEN 0 ELSE d[MinOf(hits)].rec

MergedPhonesReplace(existing, incoming) == incoming

MergedPhones(existing, incoming) == existing \o incoming

Content(d, rs, pv) ==
    [i \in 1..Len(d) |->
        [name     |-> rs[d[i].rec].name,
         birthday |-> rs[d[i].rec].birthday,
         phones   |-> [j \in 1..Len(rs[d[i].rec].phones) |-> pv[rs[d[i].rec].phones[j]]]]]

JsonDump(d, rs, pv) == [i \in 1..Len(d) |-> ToJson(rs[d[i].rec], pv)]

LoadExc(content) ==
    LET bad == {i \in 1..Len(content) :
                   RecordInit(content[i].name, content[i].birthday, content[i].phones).exc # ""}
    IN  IF bad = {} THEN ""
        ELSE RecordInit(content[MinOf(bad)].name, content[MinOf(bad)].birthday,
                        content[MinOf(bad)].phones).exc

RECURSIVE LoadInto(_, _, _, _, _)
LoadInto(content, i, rs, pv, d) ==
    IF i > Len(content) THEN [recs |-> rs, pv |-> pv, data |-> d]
    ELSE LET o   == RecordInit(content[i].name, content[i].birthday, content[i].phones)
             ids == [j \in 1..Len(o.phones) |-> Len(pv) + j]
         IN  LoadInto(content, i + 1,
                      Append(rs, [name |-> o.name, birthday |-> o.birthday, phones |-> ids]),
                      pv \o o.phones,
                      DictSet(d, content[i].name, Len(rs) + 1))

PyIndex(i, n) == IF i < 0 THEN (IF i + n < 0 THEN 0 ELSE i + n)
                 ELSE (IF i > n THEN n ELSE i)

PySlice(s, start, end) ==
    LET lo == PyIndex(start, Len(s))
        hi == PyIndex(end, Len(s))
    IN  IF hi > lo THEN [i \in 1..(hi - lo) |-> s[lo + i]] ELSE <<>>

GetPage(d, page_number) ==
    LET start_index == (page_number - 1) * page_size
        end_index   == start_index + page_size
    IN  PySlice(Values(d), start_index, end_index)

RECURSIVE GetNRecordsLoop(_, _, _, _, _)
GetNRecordsLoop(d, rs, pv, k, records) ==
    IF k <= 0 THEN records
    ELSE IF d = <<>> THEN records
    ELSE GetNRecordsLoop(d, rs, pv, k - 1, Append(records, Display(rs[d[1].rec], pv)))

GetNRecords(d, rs, pv, n) == GetNRecordsLoop(d, rs, pv, n, <<>>)

---------------------------------------------------------------------------
(* Inputs *)

P1 == <<"1", "1", "1", "1", "1", "1", "1", "1", "1", "1">>

P2 == <<"2", "2", "2", "2", "2", "2", "2", "2", "2", "2">>

Short == <<"1", "2", "3">>

Names == {<<"A", "l">>, <<"a", "l">>, <<"B", "o">>}

PhoneInputs == {P1, P2, Short, None}

OldInputs == {P1, P2, NoneStr}

PhoneLists == {<<>>, <<P1>>, <<P2>>, <<None>>, <<Short>>, <<P1, P2>>, <<P1, P1>>}

Valid == <<"2", "0", "0", "0", "-", "2", "-", "5">>

ValidPadded == <<"2", "0", "0", "0", "-", "0", "2", "-", "2", "9">>

RecordInputs == {[name |-> <<"A", "l">>, birthday |-> Valid],
                 [name |-> <<"a", "l">>, birthday |-> None],
                 [name |-> <<"B", "o">>, birthday |-> ValidPadded]}

Invalid == <<"2", "0", "2", "3", "-", "0", "2", "-", "3", "0">>

BirthdayInputs == {None, Valid, ValidPadded, Invalid}

Mk(op, exc, ret, r, a) == [op |-> op, exc |-> exc, ret |-> ret, r |-> r, a |-> a]

RecIds == 1..Len(recs)

---------------------------------------------------------------------------
(* Operations of Record *)

Record_init(name, birthday, phones) ==
    /\ Len(recs) < cap.recs
    /\ Len(phoneVal) + Len(phones) <= cap.phones
    /\ LET o == RecordInit(name, birthday, phones)
       IN  IF o.exc # ""
           THEN /\ last' = Mk("Record", o.exc, None, 0, None)
                /\ UNCHANGED <<recs, phoneVal>>
           ELSE /\ recs' = Append(recs, [name |-> o.name, birthday |-> o.birthday,
                                         phones |-> [j \in 1..Len(o.phones) |-> Len(phoneVal) + j]])
                /\ phoneVal' = phoneVal \o o.phones
                /\ last' = Mk("Record", "", None, 0, None)
    /\ UNCHANGED <<data, file, now, cap>>

add_phone(r, phone) ==
    /\ Len(phoneVal) < cap.phones
    /\ Len(recs[r].phones) < cap.phones
    /\ IF ValidPhone(phone)
       THEN /\ phoneVal' = Append(phoneVal, phone)
            /\ recs' = [recs EXCEPT ![r].phones = Append(@, Len(phoneVal) + 1)]
            /\ last' = Mk("add_phone", "", None, 0, None)
       ELSE /\ last' = Mk("add_phone", "Invalid phone number format", None, 0, None)
            /\ UNCHANGED <<recs, phoneVal>>
    /\ UNCHANGED <<data, file, now, cap>>

remove_phone(r, phone) ==
    /\ recs' = [recs EXCEPT ![r].phones = RemovePhone(phoneVal, @, phone)]
    /\ last' = Mk("remove_phone", "", None, r, phone)
    /\ UNCHANGED <<phoneVal, data, file, now, cap>>

find_phone(r, phone) ==
    /\ last' = Mk("find_phone", "", FindPhone(phoneVal, recs[r].phones, phone), r, phone)
    /\ UNCHANGED <<recs, phoneVal, data, file, now, cap>>

days_to_birthday(r) ==
    /\ IF recs[r].birthday # None
       THEN LET o == DaysToBirthday(recs[r].birthday, now)
            IN  last' = Mk("days_to_birthday", o.exc, None, o.days, None)
       ELSE last' = Mk("days_to_birthday", "", None, 0, None)
    /\ UNCHANGED <<recs, phoneVal, data, file, now, cap>>

edit_phone(r, old_phone, new_phone) ==
    /\ LET o == EditPhone(phoneVal, recs[r].phones, old_phone, new_phone)
       IN  /\ phoneVal' = o.pv
           /\ last' = Mk("edit_phone", o.exc, None, 0, None)
    /\ UNCHANGED <<recs, data, file, now, cap>>

---------------------------------------------------------------------------
(* Operations of AddressBook *)

add_record(record) ==
    /\ LET name == recs[record].name
           hits == {i \in 1..Len(data) : SameName(recs[data[i].rec].name, name)}
       IN  IF hits # {}
           THEN LET existing_record == data[MinOf(hits)].rec
                IN  /\ Len(recs[existing_record].phones) + Len(recs[record].phones) <= cap.phones
                    /\ recs' = [recs EXCEPT ![existing_record].phones =
                                                MergedPhones(@, recs[record].phones)]
                    /\ last' = Mk("add_record", "", <<"merged">>, record, None)
                    /\ UNCHANGED data
           ELSE /\ data' = DictSet(data, name, record)
                /\ last' = Mk("add_record", "", <<"inserted">>, record, None)
                /\ UNCHANGED recs
    /\ UNCHANGED <<phoneVal, file, now, cap>>

delete(name) ==
    /\ LET hits == {i \in 1..Len(data) : SameName(recs[data[i].rec].name, name)}
       IN  IF hits # {}
           THEN data' = DictDel(data, recs[data[MinOf(hits)].rec].name)
           ELSE UNCHANGED data
    /\ last' = Mk("delete", "", None, 0, None)
    /\ UNCHANGED <<recs, phoneVal, file, now, cap>>

change_phone(name, old_phone, new_phone) ==
    /\ LET name_lower == Lower(name)
           record == Find(data, recs, name_lower)
       IN  IF record # 0
           THEN LET o == EditPhone(phoneVal, recs[record].phones, old_phone, new_phone)
                IN  /\ phoneVal' = o.pv
                    /\ last' = Mk("change_phone", o.exc, None, 0, None)
           ELSE /\ last' = Mk("change_phone", "Contact not found", None, 0, None)
                /\ UNCHANGED phoneVal
    /\ UNCHANGED <<recs, data, file, now, cap>>

save_to_file ==
    /\ file' = [exists |-> TRUE, content |-> JsonDump(data, recs, phoneVal)]
    /\ last' = Mk("save_to_file", "", None, 0, None)
    /\ UNCHANGED <<recs, phoneVal, data, now, cap>>

load_from_file ==
    /\ IF ~ file.exists
       THEN /\ last' = Mk("load_from_file", "", <<"File not found">>, 0, None)
            /\ UNCHANGED <<recs, phoneVal, data>>
       ELSE IF LoadExc(file.content) # ""
       THEN /\ last' = Mk("load_from_file", LoadExc(file.content), None, 0, None)
            /\ UNCHANGED <<recs, phoneVal, data>>
       ELSE LET o == LoadInto(file.content, 1, recs, phoneVal, <<>>)
            IN  /\ Len(o.recs) <= cap.recs
                /\ Len(o.pv) <= cap.phones
                /\ recs' = o.recs
                /\ phoneVal' = o.pv
                /\ data' = o.data
                /\ last' = Mk("load_from_file", "", None, 0, None)
    /\ UNCHANGED <<file, now, cap>>

load_from_file_fresh ==
    /\ IF ~ file.exists
       THEN last' = Mk("load_fresh", "", <<>>, 0, None)
       ELSE IF LoadExc(file.content) # ""
       THEN last' = Mk("load_fresh", LoadExc(file.content), <<>>, 0, None)
       ELSE LET o == LoadInto(file.content, 1, <<>>, <<>>, <<>>)
            IN  last' = Mk("load_fresh", "", Content(o.data, o.recs, o.pv), 0, None)
    /\ UNCHANGED <<recs, phoneVal, data, file, now, cap>>

get_page(page_number) ==
    /\ last' = Mk("get_page", "", GetPage(data, page_number), page_number, None)
    /\ UNCHANGED <<recs, phoneVal, data, file, now, cap>>

get_n_records(n) ==
    /\ last' = Mk("get_n_records", "", GetNRecords(data, recs, phoneVal, n), n, None)
    /\ UNCHANGED <<recs, phoneVal, data, file, now, cap>>

---------------------------------------------------------------------------
(* Specifications.  cap holds the heap bounds of the specification: the    *)
(* number of Record objects and of Phone objects (and the length of a      *)
(* phone list) a behaviour may reach.                                      *)

InitWith(maxRecs, maxPhones) ==
    /\ recs = <<>>
    /\ phoneVal = <<>>
    /\ data = <<>>
    /\ file = [exists |-> FALSE, content |-> <<>>]
    /\ last = Mk("init", "", None, 0, None)
    /\ now = <<>>
    /\ cap = [recs |-> maxRecs, phones |-> maxPhones]

(* The address book and the records handed to it: add_record and delete. *)
Init == InitWith(MaxRecs, MaxPhones)

Next ==
    \/ \E i \in RecordInputs, phones \in {<<>>, <<P1>>, <<P2>>} :
          Record_init(i.name, i.birthday, phones)
    \/ \E r \in RecIds : add_record(r)
    \/ \E name \in Names : delete(name)

Spec == Init /\ [][Next]_vars

(* The address book and change_phone. *)
InitLean == InitWith(MaxRecs, MaxLeanPhones)

NextChange ==
    \/ \E name \in Names, phones \in {<<>>, <<P1>>} :
          Record_init(name, None, phones)
    \/ \E r \in RecIds : add_record(r)
    \/ \E name \in Names : delete(name)
    \/ \E name \in Names, old_phone \in {P1, P2}, new_phone \in {P2, Short, None} :
          change_phone(name, old_phone, new_phone)

SpecChange == InitLean /\ [][NextChange]_vars

(* The address book with its file: save_to_file and load_from_file. *)
NextFile ==
    \/ \E name \in Names, phones \in {<<>>, <<P1>>} :
          Record_init(name, None, phones)
    \/ \E r \in RecIds : add_record(r)
    \/ \E name \in Names : delete(name)
    \/ \E name \in Names, new_phone \in {P1, Short} :
          change_phone(name, P1, new_phone)
    \/ save_to_file
    \/ load_from_file

SpecFile == InitLean /\ [][NextFile]_vars

(* Records and their phones. *)
NextRecord ==
    \/ \E name \in Names, birthday \in BirthdayInputs, phones \in PhoneLists :
          Record_init(name, birthday, phones)
    \/ \E r \in RecIds, phone \in PhoneInputs : add_phone(r, phone)
    \/ \E r \in RecIds, phone \in PhoneInputs : remove_phone(r, phone)
    \/ \E r \in RecIds, phone \in PhoneInputs : find_phone(r, phone)
    \/ \E r \in RecIds, old_phone \in OldInputs, new_phone \in PhoneInputs :
          edit_phone(r, old_phone, new_phone)

SpecRecord == Init /\ [][NextRecord]_vars

(* Records a caller still holds after handing them to the book. *)
NextAlias ==
    \/ \E i \in RecordInputs, phones \in {<<>>, <<P1>>} :
          Record_init(i.name, i.birthday, phones)
    \/ \E r \in RecIds, phone \in {P2, Short} : add_phone(r, phone)
    \/ \E r \in RecIds, phone \in {P1, P2} : remove_phone(r, phone)
    \/ \E r \in RecIds, old_phone \in {P1, P2}, new_phone \in {P2, Short} :
          edit_phone(r, old_phone, new_phone)
    \/ \E r \in RecIds : add_record(r)
    \/ \E name \in Names : delete(name)
    \/ \E name \in Names, old_phone \in {P1, P2}, new_phone \in {P2, Short} :
          change_phone(name, old_phone, new_phone)

SpecAlias == Init /\ [][NextAlias]_vars

(* A book saved to its file and the file loaded into a fresh book. *)
NextPersist ==
    \/ \E name \in Names, birthday \in BirthdayInputs, phones \in {<<>>, <<P1>>, <<None>>} :
          Record_init(name, birthday, phones)
    \/ \E r \in RecIds : add_record(r)
    \/ \E name \in Names : delete(name)
    \/ \E name \in Names, old_phone \in {P1, NoneStr}, new_phone \in {P2, Short, None} :
          change_phone(name, old_phone, new_phone)
    \/ save_to_file
    \/ load_from_file_fresh

SpecPersist == InitLean /\ [][NextPersist]_vars

(* Pagination: a book of N records, N in 0..MaxBook, as N calls of        *)
(* add_record with distinct names leave it.                                *)
NameN(i) == <<"C", Digits[(i \div 10) + 1], Digits[(i % 10) + 1]>>

InitPage ==
    \E N \in 0..MaxBook :
        /\ recs = [i \in 1..N |-> [name |-> NameN(i), birthday |-> None,
                                   phones |-> <<i>>]]
        /\ phoneVal = [i \in 1..N |-> IF i % 2 = 1 THEN P1 ELSE P2]
        /\ data = [i \in 1..N |-> [key |-> NameN(i), rec |-> i]]
        /\ file = [exists |-> FALSE, content |-> <<>>]
        /\ last = Mk("init", "", None, 0, None)
        /\ now = <<>>
        /\ cap = [recs |-> MaxBook, phones |-> MaxBook]

NextPage ==
    \/ \E page_number \in (0 - MaxPage)..MaxPage : get_page(page_number)
    \/ \E n \in 0..MaxN : get_n_records(n)

SpecPage == InitPage /\ [][NextPage]_vars

(* days_to_birthday of one record at a moment now = <<year, month, day,   *)
(* hour>>.                                                                 *)
BirthdayTexts ==
    {<<"1", "9", "9", "0", "-", "0", "6", "-", "1", "5">>,
     <<"1", "9", "9", "0", "-", "1", "-", "1">>,
     <<"1", "9", "9", "0", "-", "1", "2", "-", "3", "1">>,
     <<"2", "0", "0", "0", "-", "0", "2", "-", "2", "9">>,
     <<"1", "9", "9", "0", "-", "0", "3", "-", "0", "1">>}

Moments ==
    {<<y, md[1], md[2], h>> :
        y \in 2023..(2023 + MaxYears),
        md \in {<<1, 1>>, <<2, 28>>, <<3, 1>>, <<6, 14>>, <<6, 15>>, <<6, 16>>, <<12, 31>>},
        h \in {0, 12}}

InitBday ==
    /\ \E text \in BirthdayTexts :
          LET o == RecordInit(<<"A", "l">>, text, <<>>)
          IN  recs = <<[name |-> o.name, birthday |-> o.birthday, phones |-> <<>>]>>
    /\ phoneVal = <<>>
    /\ data = <<>>
    /\ file = [exists |-> FALSE, content |-> <<>>]
    /\ last = Mk("init", "", None, 0, None)
    /\ now \in Moments
    /\ cap = [recs |-> 1, phones |-> 0]

NextBday ==
    \E r \in RecIds : days_to_birthday(r)

SpecBday == InitBday /\ [][NextBday]_vars

---------------------------------------------------------------------------
(* Properties *)

BookRecs == {data[i].rec : i \in 1..Len(data)}

Texts(rs, pv, r) == [j \in 1..Len(rs[r].phones) |-> StrOfValue(pv[rs[r].phones[j]])]

(* C1: the book never holds two records whose names are equal when        *)
(* compared case-insensitively.                                            *)
C1_UniqueNames ==
    \A i, j \in 1..Len(data) :
        i # j => Lower(recs[data[i].rec].name) # Lower(recs[data[j].rec].name)

C1_Witness ==
    /\ last.op = "load_from_file"
    /\ last.exc = ""
    /\ file.exists
    /\ Len(data) >= 1
    /\ \E r \in RecIds \ BookRecs : Lower(recs[r].name) = Lower(recs[data[1].rec].name)

(* C2: add_record of a record whose name matches, ignoring case, a stored  *)
(* record leaves one record for that name, with its name and birthday      *)
(* unchanged and its phone list the old list followed by the new record's  *)
(* phones; the other records and the order of the book are unchanged.      *)
(* Without a match the record is appended, keyed by its exact-case name.   *)
C2_MergeLaw ==
    [][last'.op = "add_record" =>
        LET r    == last'.r
            hits == {i \in 1..Len(data) :
                        Lower(recs[data[i].rec].name) = Lower(recs[r].name)}
        IN  IF hits # {}
            THEN LET e == data[MinOf(hits)].rec
                 IN  /\ data' = data
                     /\ Cardinality({i \in 1..Len(data') :
                            Lower(recs'[data'[i].rec].name) = Lower(recs[r].name)}) = 1
                     /\ recs'[e].name = recs[e].name
                     /\ recs'[e].birthday = recs[e].birthday
                     /\ recs'[e].phones = recs[e].phones \o recs[r].phones
                     /\ Texts(recs', phoneVal', e)
                            = Texts(recs, phoneVal, e) \o Texts(recs, phoneVal, r)
                     /\ \A x \in BookRecs \ {e} :
                            /\ recs'[x] = recs[x]
                            /\ Texts(recs', phoneVal', x) = Texts(recs, phoneVal, x)
            ELSE /\ data' = Append(data, [key |-> recs[r].name, rec |-> r])
                 /\ recs' = recs
                 /\ phoneVal' = phoneVal]_vars

C2_Witness ==
    /\ last.op = "add_record"
    /\ last.ret = <<"merged">>
    /\ Len(data) >= 1
    /\ last.r \notin BookRecs
    /\ recs[last.r].phones # <<>>
    /\ \E e \in BookRecs :
          /\ Lower(recs[e].name) = Lower(recs[last.r].name)
          /\ recs[e].name # recs[last.r].name
          /\ recs[e].birthday # recs[last.r].birthday
          /\ Len(recs[e].phones) > Len(recs[last.r].phones)

C3_FirstN ==
    last.op = "get_n_records" =>
        LET k == IF last.r < Len(data) THEN last.r ELSE Len(data)
        IN  last.ret = [i \in 1..k |-> Display(recs[data[i].rec], phoneVal)]

(* C4: get_page(p) returns exactly the records at zero-based positions i   *)
(* with (p-1)*5 <= i < min(p*5, N), for every integer p.                   *)
C4_Page ==
    last.op = "get_page" =>
        LET p  == last.r
            N  == Len(data)
            lo == IF (p - 1) * 5 < 0 THEN 0 ELSE (p - 1) * 5
            hi == IF p * 5 < N THEN p * 5 ELSE N
        IN  /\ last.exc = ""
            /\ last.ret = IF hi > lo THEN [i \in 1..(hi - lo) |-> data[lo + i].rec] ELSE <<>>

(* C5: find_phone(raw) returns the first phone of the record whose text    *)
(* equals raw, and nothing only when no stored phone has that text.        *)
C5_FindPhone ==
    last.op = "find_phone" =>
        LET phones == recs[last.r].phones
            hits   == {i \in 1..Len(phones) : StrOfValue(phoneVal[phones[i]]) = last.a}
        IN  last.ret = IF hits # {} THEN phoneVal[phones[MinOf(hits)]] ELSE None

(* C6: after remove_phone(raw) the record holds no phone whose text        *)
(* equals raw.                                                             *)
C6_RemovePhone ==
    last.op = "remove_phone" =>
        \A i \in 1..Len(recs[last.r].phones) :
            StrOfValue(phoneVal[recs[last.r].phones[i]]) # last.a

(* C7: days_to_birthday returns the number of calendar days from today's   *)
(* date to the next occurrence of the birthday's month and day, whatever   *)
(* the time of day; 0 on the birthday itself.                              *)
C7_DaysToBirthday ==
    last.op = "days_to_birthday" =>
        LET b     == recs[1].birthday
            today == Ordinal(now[1], now[2], now[3])
            next  == {Ordinal(y, b[2], b[3]) :
                         y \in {yy \in now[1]..(now[1] + 8) : ValidDate(yy, b[2], b[3])}}
            ahead == {o \in next : o >= today}
        IN  /\ last.exc = ""
            /\ last.r = MinOf(ahead) - today

(* C9: save_to_file followed by load_from_file into a fresh book yields    *)
(* the same records in the same order, each with the same name, birthday   *)
(* and ordered phone list.                                                 *)
C9_RoundTrip ==
    (/\ last.op = "load_fresh"
     /\ file.exists
     /\ file.content = JsonDump(data, recs, phoneVal)) =>
        /\ last.exc = ""
        /\ last.ret = Content(data, recs, phoneVal)

(* C10: no Phone object is held in the phone lists of two different        *)
(* Record objects.                                                         *)
C10_NoSharedPhone ==
    \A r1, r2 \in RecIds :
        r1 # r2 => Range(recs[r1].phones) \cap Range(recs[r2].phones) = {}

====
